---------------------------- MODULE Spec2Model ----------------------------
(***************************************************************************)
(* The two Ghidra headless scripts docs/scripts/decompile_magic.py and     *)
(* docs/scripts/decompile_pathfinding.py as one state machine.  The two    *)
(* scripts share parse_il2cpp_header, apply_il2cpp_symbols,                *)
(* decompile_function_at_address and the skeleton of run; they differ in   *)
(* TARGET_FUNCTIONS_RVA, in the order of the decompile loop and in the     *)
(* class banners, which only decompile_magic.py writes.  The variable      *)
(* script says which of the two is running.                                *)
(*                                                                         *)
(* The host (Ghidra, the file system) is the environment: each answer it   *)
(* gives to a call of the scripts is drawn from the answers the call can   *)
(* produce, an exception included.                                         *)
(***************************************************************************)
EXTENDS Integers, Sequences, FiniteSets, TLC

\* Python's None, and a name that is bound to nothing yet.
None == "None"
Unset == "unset"

----------------------------------------------------------------------------
(* TARGET_FUNCTIONS_RVA *)

\* decompile_magic.py TARGET_FUNCTIONS_RVA, in the order of the dict literal; each pair is
\* <<RVA, name>>, the name spelled as its sequence of byte values (Python 2 str).
TABLE_magic ==
  <<
    \* line 21: 0x685930: "AbilityContentListController$$SetDescriptionText"
    <<6838576, <<65,98,105,108,105,116,121,67,111,110,116,101,110,116,76,105,115,116,67,111,110,116,114,111,108,108,101,114,36,36,83,101,116,68,101,115,99,114,105,112,116,105,111,110,84,101,120,116>>>>,
    \* line 22: 0x6856B0: "AbilityContentListController$$SelectContent"
    <<6837936, <<65,98,105,108,105,116,121,67,111,110,116,101,110,116,76,105,115,116,67,111,110,116,114,111,108,108,101,114,36,36,83,101,108,101,99,116,67,111,110,116,101,110,116>>>>,
    \* line 23: 0x686950: "AbilityContentListController$$UpdateFocus"
    <<6842704, <<65,98,105,108,105,116,121,67,111,110,116,101,110,116,76,105,115,116,67,111,110,116,114,111,108,108,101,114,36,36,85,112,100,97,116,101,70,111,99,117,115>>>>,
    \* line 24: 0x6854B0: "AbilityContentListController$$SelectContentByIndex"
    <<6837424, <<65,98,105,108,105,116,121,67,111,110,116,101,110,116,76,105,115,116,67,111,110,116,114,111,108,108,101,114,36,36,83,101,108,101,99,116,67,111,110,116,101,110,116,66,121,73,110,100,101,120>>>>,
    \* line 25: 0x685750: "AbilityContentListController$$SetCursor"
    <<6838096, <<65,98,105,108,105,116,121,67,111,110,116,101,110,116,76,105,115,116,67,111,110,116,114,111,108,108,101,114,36,36,83,101,116,67,117,114,115,111,114>>>>,
    \* line 26: 0x687190: "AbilityContentListController$$UpdateView"
    <<6844816, <<65,98,105,108,105,116,121,67,111,110,116,101,110,116,76,105,115,116,67,111,110,116,114,111,108,108,101,114,36,36,85,112,100,97,116,101,86,105,101,119>>>>,
    \* line 27: 0x686D20: "AbilityContentListController$$UpdateOwnsAbilityList"
    <<6843680, <<65,98,105,108,105,116,121,67,111,110,116,101,110,116,76,105,115,116,67,111,110,116,114,111,108,108,101,114,36,36,85,112,100,97,116,101,79,119,110,115,65,98,105,108,105,116,121,76,105,115,116>>>>,
    \* line 28: 0x685E90: "AbilityContentListController$$SetFocus"
    <<6839952, <<65,98,105,108,105,116,121,67,111,110,116,101,110,116,76,105,115,116,67,111,110,116,114,111,108,108,101,114,36,36,83,101,116,70,111,99,117,115>>>>,
    \* line 34: 0x682800: "AbilityCommandController$$SetFocus_CommandId"
    <<6825984, <<65,98,105,108,105,116,121,67,111,109,109,97,110,100,67,111,110,116,114,111,108,108,101,114,36,36,83,101,116,70,111,99,117,115,95,67,111,109,109,97,110,100,73,100>>>>,
    \* line 35: 0x6836C0: "AbilityCommandController$$UpdateController"
    <<6829760, <<65,98,105,108,105,116,121,67,111,109,109,97,110,100,67,111,110,116,114,111,108,108,101,114,36,36,85,112,100,97,116,101,67,111,110,116,114,111,108,108,101,114>>>>,
    \* line 36: 0x6836D0: "AbilityCommandController$$UpdateFocus"
    <<6829776, <<65,98,105,108,105,116,121,67,111,109,109,97,110,100,67,111,110,116,114,111,108,108,101,114,36,36,85,112,100,97,116,101,70,111,99,117,115>>>>,
    \* line 37: 0x6823B0: "AbilityCommandController$$SetAbilityData"
    <<6824880, <<65,98,105,108,105,116,121,67,111,109,109,97,110,100,67,111,110,116,114,111,108,108,101,114,36,36,83,101,116,65,98,105,108,105,116,121,68,97,116,97>>>>,
    \* line 38: 0x681BA0: "AbilityCommandController$$GetCurrentAbilityCommandId"
    <<6822816, <<65,98,105,108,105,116,121,67,111,109,109,97,110,100,67,111,110,116,114,111,108,108,101,114,36,36,71,101,116,67,117,114,114,101,110,116,65,98,105,108,105,116,121,67,111,109,109,97,110,100,73,100>>>>,
    \* line 39: 0x6821F0: "AbilityCommandController$$SelectCommandByIndex"
    <<6824432, <<65,98,105,108,105,116,121,67,111,109,109,97,110,100,67,111,110,116,114,111,108,108,101,114,36,36,83,101,108,101,99,116,67,111,109,109,97,110,100,66,121,73,110,100,101,120>>>>,
    \* line 40: 0x682B90: "AbilityCommandController$$SetFocus_bool"
    <<6826896, <<65,98,105,108,105,116,121,67,111,109,109,97,110,100,67,111,110,116,114,111,108,108,101,114,36,36,83,101,116,70,111,99,117,115,95,98,111,111,108>>>>,
    \* line 46: 0x3BBC30: "BattleAbilityInfomationContentController$$UpdateView_OwnedAbility"
    <<3914800, <<66,97,116,116,108,101,65,98,105,108,105,116,121,73,110,102,111,109,97,116,105,111,110,67,111,110,116,101,110,116,67,111,110,116,114,111,108,108,101,114,36,36,85,112,100,97,116,101,86,105,101,119,95,79,119,110,101,100,65,98,105,108,105,116,121>>>>,
    \* line 47: 0x3BB980: "BattleAbilityInfomationContentController$$SetFocus"
    <<3914112, <<66,97,116,116,108,101,65,98,105,108,105,116,121,73,110,102,111,109,97,116,105,111,110,67,111,110,116,101,110,116,67,111,110,116,114,111,108,108,101,114,36,36,83,101,116,70,111,99,117,115>>>>,
    \* line 48: 0x3BBAF0: "BattleAbilityInfomationContentController$$UpdateAbilitySkillLevel"
    <<3914480, <<66,97,116,116,108,101,65,98,105,108,105,116,121,73,110,102,111,109,97,116,105,111,110,67,111,110,116,101,110,116,67,111,110,116,114,111,108,108,101,114,36,36,85,112,100,97,116,101,65,98,105,108,105,116,121,83,107,105,108,108,76,101,118,101,108>>>>,
    \* line 49: 0x3BB7C0: "BattleAbilityInfomationContentController$$Initalize"
    <<3913664, <<66,97,116,116,108,101,65,98,105,108,105,116,121,73,110,102,111,109,97,116,105,111,110,67,111,110,116,101,110,116,67,111,110,116,114,111,108,108,101,114,36,36,73,110,105,116,97,108,105,122,101>>>>,
    \* line 55: 0x664350: "OwnedAbility$$get_MesIdName"
    <<6701904, <<79,119,110,101,100,65,98,105,108,105,116,121,36,36,103,101,116,95,77,101,115,73,100,78,97,109,101>>>>,
    \* line 56: 0x664300: "OwnedAbility$$get_MesIdDescription"
    <<6701824, <<79,119,110,101,100,65,98,105,108,105,116,121,36,36,103,101,116,95,77,101,115,73,100,68,101,115,99,114,105,112,116,105,111,110>>>>,
    \* line 57: 0x276F50: "OwnedAbility$$get_Ability"
    <<2584400, <<79,119,110,101,100,65,98,105,108,105,116,121,36,36,103,101,116,95,65,98,105,108,105,116,121>>>>,
    \* line 58: 0x6643A0: "OwnedAbility$$get_SkillLevel"
    <<6701984, <<79,119,110,101,100,65,98,105,108,105,116,121,36,36,103,101,116,95,83,107,105,108,108,76,101,118,101,108>>>>,
    \* line 64: 0xF54780: "Ability$$get_AbilityLv"
    <<16074624, <<65,98,105,108,105,116,121,36,36,103,101,116,95,65,98,105,108,105,116,121,76,118>>>>,
    \* line 65: 0xF54790: "Ability$$get_TypeId"
    <<16074640, <<65,98,105,108,105,116,121,36,36,103,101,116,95,84,121,112,101,73,100>>>>,
    \* line 71: 0x6BDF30: "AbilityCommandContentData$$get_Id"
    <<7069488, <<65,98,105,108,105,116,121,67,111,109,109,97,110,100,67,111,110,116,101,110,116,68,97,116,97,36,36,103,101,116,95,73,100>>>>,
    \* line 77: 0x689120: "AbilityWindowController$$SelectContent"
    <<6852896, <<65,98,105,108,105,116,121,87,105,110,100,111,119,67,111,110,116,114,111,108,108,101,114,36,36,83,101,108,101,99,116,67,111,110,116,101,110,116>>>>,
    \* line 78: 0x688450: "AbilityWindowController$$UpdateView"
    <<6849616, <<65,98,105,108,105,116,121,87,105,110,100,111,119,67,111,110,116,114,111,108,108,101,114,36,36,85,112,100,97,116,101,86,105,101,119>>>>
  >>

\* decompile_pathfinding.py TARGET_FUNCTIONS_RVA, in the order of the dict literal; each pair is
\* <<RVA, name>>, the name spelled as its sequence of byte values (Python 2 str).
TABLE_pathfinding ==
  <<
    \* line 18: 0xC51270: "MapRouteSearcher$$Search"
    <<12915312, <<77,97,112,82,111,117,116,101,83,101,97,114,99,104,101,114,36,36,83,101,97,114,99,104>>>>,
    \* line 19: 0xC4F3D0: "MapRouteSearcher$$SearchShortestRoute"
    <<12907472, <<77,97,112,82,111,117,116,101,83,101,97,114,99,104,101,114,36,36,83,101,97,114,99,104,83,104,111,114,116,101,115,116,82,111,117,116,101>>>>,
    \* line 20: 0xC50450: "MapRouteSearcher$$SearchSimple"
    <<12911696, <<77,97,112,82,111,117,116,101,83,101,97,114,99,104,101,114,36,36,83,101,97,114,99,104,83,105,109,112,108,101>>>>,
    \* line 21: 0xC511E0: "MapRouteSearcher$$SearchSpriteEntityToCellPosition"
    <<12915168, <<77,97,112,82,111,117,116,101,83,101,97,114,99,104,101,114,36,36,83,101,97,114,99,104,83,112,114,105,116,101,69,110,116,105,116,121,84,111,67,101,108,108,80,111,115,105,116,105,111,110>>>>,
    \* line 22: 0xC510C0: "MapRouteSearcher$$SearchSpriteEntityDirection"
    <<12914880, <<77,97,112,82,111,117,116,101,83,101,97,114,99,104,101,114,36,36,83,101,97,114,99,104,83,112,114,105,116,101,69,110,116,105,116,121,68,105,114,101,99,116,105,111,110>>>>,
    \* line 23: 0xC4E9E0: "MapRouteSearcher$$EntityWorldPositionToCellPosition"
    <<12904928, <<77,97,112,82,111,117,116,101,83,101,97,114,99,104,101,114,36,36,69,110,116,105,116,121,87,111,114,108,100,80,111,115,105,116,105,111,110,84,111,67,101,108,108,80,111,115,105,116,105,111,110>>>>,
    \* line 24: 0xC4EB40: "MapRouteSearcher$$MakeRouteMapWithCollision"
    <<12905280, <<77,97,112,82,111,117,116,101,83,101,97,114,99,104,101,114,36,36,77,97,107,101,82,111,117,116,101,77,97,112,87,105,116,104,67,111,108,108,105,115,105,111,110>>>>,
    \* line 25: 0xC4ECC0: "MapRouteSearcher$$MakeRouteMapWithoutCollision"
    <<12905664, <<77,97,112,82,111,117,116,101,83,101,97,114,99,104,101,114,36,36,77,97,107,101,82,111,117,116,101,77,97,112,87,105,116,104,111,117,116,67,111,108,108,105,115,105,111,110>>>>,
    \* line 26: 0xC4EDC0: "MapRouteSearcher$$SearchAroundCellWithCollision"
    <<12905920, <<77,97,112,82,111,117,116,101,83,101,97,114,99,104,101,114,36,36,83,101,97,114,99,104,65,114,111,117,110,100,67,101,108,108,87,105,116,104,67,111,108,108,105,115,105,111,110>>>>,
    \* line 27: 0xC4F260: "MapRouteSearcher$$SearchAroundCellWithoutCollision"
    <<12907104, <<77,97,112,82,111,117,116,101,83,101,97,114,99,104,101,114,36,36,83,101,97,114,99,104,65,114,111,117,110,100,67,101,108,108,87,105,116,104,111,117,116,67,111,108,108,105,115,105,111,110>>>>,
    \* line 28: 0xC52140: "MapRouteSearcher$$UpdateRouteMapCellStep"
    <<12919104, <<77,97,112,82,111,117,116,101,83,101,97,114,99,104,101,114,36,36,85,112,100,97,116,101,82,111,117,116,101,77,97,112,67,101,108,108,83,116,101,112>>>>,
    \* line 29: 0xC4E970: "MapRouteSearcher$$CanIgnore"
    <<12904816, <<77,97,112,82,111,117,116,101,83,101,97,114,99,104,101,114,36,36,67,97,110,73,103,110,111,114,101>>>>,
    \* line 32: 0x9391D0: "External.Misc$$ShowMapTitle"
    <<9671120, <<69,120,116,101,114,110,97,108,46,77,105,115,99,36,36,83,104,111,119,77,97,112,84,105,116,108,101>>>>,
    \* line 33: 0x27FED0: "FieldController$$GetMapTitleID"
    <<2621136, <<70,105,101,108,100,67,111,110,116,114,111,108,108,101,114,36,36,71,101,116,77,97,112,84,105,116,108,101,73,68>>>>,
    \* line 34: 0x3104C0: "MapModel$$GetMapName"
    <<3212480, <<77,97,112,77,111,100,101,108,36,36,71,101,116,77,97,112,78,97,109,101>>>>,
    \* line 37: 0xA87AA0: "Map$$get_MapName"
    <<11041440, <<77,97,112,36,36,103,101,116,95,77,97,112,78,97,109,101>>>>,
    \* line 38: 0xA8A1B0: "Map$$get_MapTitle"
    <<11051440, <<77,97,112,36,36,103,101,116,95,77,97,112,84,105,116,108,101>>>>
  >>

Scripts == {"magic", "pathfinding"}

\* The dict literal of the running script, as its sequence of items.
TableItems(s) == IF s = "magic" THEN TABLE_magic ELSE TABLE_pathfinding

\* A sequence of items <<key, value>> with distinct keys, as a dict.
DictOf(items) ==
  [key \in {items[k][1] : k \in 1..Len(items)} |->
     items[CHOOSE k \in 1..Len(items) : items[k][1] = key][2]]

DICT_magic == DictOf(TABLE_magic)
DICT_pathfinding == DictOf(TABLE_pathfinding)

\* TARGET_FUNCTIONS_RVA as the dict it is: RVA -> name.
TARGET_FUNCTIONS_RVA(s) == IF s = "magic" THEN DICT_magic ELSE DICT_pathfinding

----------------------------------------------------------------------------
(* Python 2 str operations, on sequences of byte values *)

DOLLARS == <<36, 36>>                               \* "$$"
DOT == <<46>>                                       \* "."
UNDERSCORE == <<95>>                                \* "_"
UNDERSCORES == <<95, 95>>                           \* "__"
UNKNOWN == <<85, 110, 107, 110, 111, 119, 110>>     \* "Unknown"
EMPTY == <<>>                                       \* ""

\* s[k:k+len(sub)] == sub
OccursAt(s, sub, k) ==
  /\ k + Len(sub) - 1 <= Len(s)
  /\ \A j \in 1..Len(sub) : s[k + j - 1] = sub[j]

\* sub in s
Contains(s, sub) == \E k \in 1..(Len(s) + 1) : OccursAt(s, sub, k)

\* s.find(sub), 1-based; 0 when sub does not occur
Find(s, sub) ==
  IF Contains(s, sub)
  THEN CHOOSE k \in 1..(Len(s) + 1) :
         /\ OccursAt(s, sub, k)
         /\ \A j \in 1..(k - 1) : ~OccursAt(s, sub, j)
  ELSE 0

\* s.split(sep)[0]: the text before the first occurrence of sep, all of s
\* when sep does not occur
SplitFirst(s, sep) ==
  IF Contains(s, sep) THEN SubSeq(s, 1, Find(s, sep) - 1) ELSE s

\* s.replace(old, new) for a non-empty old: the occurrences are replaced from
\* the left and do not overlap.  ReplaceFrom is the scan from position k on.
RECURSIVE ReplaceFrom(_, _, _, _)
ReplaceFrom(s, old, new, k) ==
  IF k > Len(s) THEN <<>>
  ELSE IF OccursAt(s, old, k)
       THEN new \o ReplaceFrom(s, old, new, k + Len(old))
       ELSE <<s[k]>> \o ReplaceFrom(s, old, new, k + 1)

Replace(s, old, new) == ReplaceFrom(s, old, new, 1)

\* The length of the longest common prefix of two str
CommonPrefix(a, b) ==
  LET m == IF Len(a) < Len(b) THEN Len(a) ELSE Len(b)
  IN CHOOSE k \in 0..m :
       /\ \A j \in 1..k : a[j] = b[j]
       /\ (k = m \/ a[k + 1] # b[k + 1])

\* a < b for two str: byte-wise lexicographic, a proper prefix is smaller
StrLess(a, b) ==
  LET k == CommonPrefix(a, b)
  IN IF k = Len(a) \/ k = Len(b) THEN Len(a) < Len(b) ELSE a[k + 1] < b[k + 1]

----------------------------------------------------------------------------
(* The order of the decompile loop *)

\* The orders in which TARGET_FUNCTIONS_RVA.items() may hand out the items:
\* a Python 2 dict promises none.
DictOrders == {"literal", "reversed", "interleaved"}

Reversed(seq) == [k \in 1..Len(seq) |-> seq[Len(seq) + 1 - k]]

Interleaved(seq) ==
  LET odd == (Len(seq) + 1) \div 2
  IN [k \in 1..Len(seq) |-> IF k <= odd THEN seq[2 * k - 1] ELSE seq[2 * (k - odd)]]

\* TARGET_FUNCTIONS_RVA.items()
Items(s, order) ==
  CASE order = "literal" -> TableItems(s)
    [] order = "reversed" -> Reversed(TableItems(s))
    [] order = "interleaved" -> Interleaved(TableItems(s))

\* KeyLess with both scripts sorting the (rva, name) tuples.
KeyLessTuples(s, a, b) == a[1] < b[1] \/ (a[1] = b[1] /\ StrLess(a[2], b[2]))

\* The comparison sorted() makes between two items <<rva, name>>:
\* decompile_magic.py sorts with key=lambda x: x[1], decompile_pathfinding.py
\* sorts the (rva, name) tuples themselves.
KeyLess(s, a, b) ==
  IF s = "magic"
  THEN StrLess(a[2], b[2])
  ELSE a[1] < b[1] \/ (a[1] = b[1] /\ StrLess(a[2], b[2]))

\* sorted() is a stable sort: an item comes out behind every item with a
\* smaller key and behind the items with an equal key that came in before
\* it.  Rank is the position at which item i of the input comes out.
Rank(s, items, i) ==
  1 + Cardinality({j \in 1..Len(items) :
                     \/ KeyLess(s, items[j], items[i])
                     \/ (~KeyLess(s, items[i], items[j]) /\ j < i)})

\* The items as items() hands them out, with no sorted() around them.
UnsortedItems(s, items) == items

SortedItems(s, items) ==
  LET rank == [i \in 1..Len(items) |-> Rank(s, items, i)]
  IN [k \in 1..Len(items) |-> items[CHOOSE i \in 1..Len(items) : rank[i] = k]]

\* The list the for statement of run walks.
LoopItems(s, order) == SortedItems(s, Items(s, order))

\* The keys of that list, in its order.
LoopKeys(s, order) ==
  LET items == LoopItems(s, order)
  IN [k \in 1..Len(items) |-> items[k][1]]

\* LoopKeys for each script and each order of items(), worked out once.
SortedKeys == [s \in Scripts, order \in DictOrders |-> LoopKeys(s, order)]

\* class_name of decompile_magic.py
ClassName(name) ==
  IF Contains(name, DOLLARS) THEN SplitFirst(name, DOLLARS) ELSE UNKNOWN

----------------------------------------------------------------------------
(* parse_il2cpp_header *)

\* What the host can answer during one call of parse_il2cpp_header:
\*   exists  os.path.exists(IL2CPP_HEADER_PATH)
\*   setup   getDataTypeManager, open, read and CParser(dtm), up to the inner try
\*   cparse  parser.parse(header_content): a value, None, or an exception
\*   count   the loop over dtm.getAllDataTypes() that counts the types
\*   alt     CParserUtils.parseHeaderFiles, with the imports before it
ParseAnswers ==
  [exists : BOOLEAN, setup : {"ok", "raise"}, cparse : {"value", None, "raise"},
   count : {"ok", "raise"}, alt : {"ok", "raise"}]

\* No call of parse_il2cpp_header has been made, or its frame is gone.
NoParse ==
  [called |-> FALSE, cparse |-> "notcalled", count |-> "notrun", altCalls |-> 0,
   ret |-> Unset, typesAdded |-> FALSE]

\* The except branch of the inner try: the alternative parsing method.
\* f is the frame so far.
AlternativeParse(h, f) ==
  [f EXCEPT !.altCalls = f.altCalls + 1,
            !.ret = (h.alt = "ok"),
            !.typesAdded = f.typesAdded \/ h.alt = "ok"]

\* The inner try: parser.parse and, for a result that is not None, the count
\* of the data types.  Any exception raised in it lands in the except branch.
PrimaryParse(h, f) ==
  LET g == [f EXCEPT !.cparse = h.cparse]
  IN CASE h.cparse = "raise" -> AlternativeParse(h, g)
       [] h.cparse = None -> [g EXCEPT !.ret = TRUE, !.typesAdded = TRUE]
       [] h.cparse = "value" ->
            IF h.count = "ok"
            THEN [g EXCEPT !.count = "ok", !.ret = TRUE, !.typesAdded = TRUE]
            ELSE AlternativeParse(h, [g EXCEPT !.count = "raise", !.typesAdded = TRUE])

\* One call of parse_il2cpp_header under the host answers h: what it called,
\* what it returned and whether data types reached the data type manager.
parse_il2cpp_header(h) ==
  LET f == [NoParse EXCEPT !.called = TRUE]
  IN IF ~h.exists THEN [f EXCEPT !.ret = FALSE]
     ELSE IF h.setup = "raise" THEN [f EXCEPT !.ret = FALSE]
     ELSE PrimaryParse(h, f)

----------------------------------------------------------------------------
(* apply_il2cpp_symbols *)

\* script.json as apply_il2cpp_symbols meets it:
\*   file     "missing" (os.path.exists is false), "unreadable" (codecs.open
\*            or json.load raises) or "ok"
\*   hasKey   "ScriptMethod" in data
\*   methods  data["ScriptMethod"], each element either a dict whose "Address"
\*            and "Name" may be missing (hasAddress, hasName) or something
\*            that is no dict (kind "other": method.get raises)
NoFile == [file |-> "missing", hasKey |-> FALSE, methods |-> <<>>]
BadFile == [file |-> "unreadable", hasKey |-> FALSE, methods |-> <<>>]
NoKeyFile == [file |-> "ok", hasKey |-> FALSE, methods |-> <<>>]
JsonFile(methods) == [file |-> "ok", hasKey |-> TRUE, methods |-> methods]

Method(hasAddress, address, hasName, name) ==
  [kind |-> "dict", hasAddress |-> hasAddress, Address |-> address,
   hasName |-> hasName, Name |-> name]
NotADict ==
  [kind |-> "other", hasAddress |-> FALSE, Address |-> 0, hasName |-> FALSE,
   Name |-> EMPTY]

\* What the host can answer while one method is handled, inside the try
\* around createLabel: "ok", "addr_raise" (getAddress raises, createLabel is
\* not reached) or "label_raise" (createLabel is called and raises).
LabelAnswers == {"ok", "addr_raise", "label_raise"}

\* No call of apply_il2cpp_symbols has been made, or its frame is gone.
NoApply ==
  [called |-> FALSE, applied |-> 0, ret |-> 0, raised |-> FALSE,
   labelCalls |-> {}, created |-> 0, labels |-> {}]

\* Truthy with the address left out of the test: if name
TruthyNameOnly(m) == m.hasName /\ m.Name # EMPTY

\* if addr and name
Truthy(m) == m.hasAddress /\ m.Address # 0 /\ m.hasName /\ m.Name # EMPTY

\* name == target_name or name.replace(".", "$$") == target_name, with
\* replaced the value of name.replace(".", "$$")
NameMatches(name, replaced, target_name) ==
  name = target_name \/ replaced = target_name

\* The keys of TARGET_FUNCTIONS_RVA whose name the method's name matches: the
\* iterations of the inner for that reach the try.
MatchingTargets(s, m) ==
  LET replaced == Replace(m.Name, DOT, DOLLARS)
  IN {rva \in DOMAIN TARGET_FUNCTIONS_RVA(s) :
        NameMatches(m.Name, replaced, TARGET_FUNCTIONS_RVA(s)[rva])}

\* clean_name
CleanName(name) ==
  Replace(Replace(Replace(Replace(name, DOLLARS, UNDERSCORES),
                          <<60>>, UNDERSCORE), <<62>>, UNDERSCORE),
          <<44>>, UNDERSCORE)

\* The body of the for over data["ScriptMethod"] for method k, in the frame f
\* and under the host answer a.
ApplyMethod(s, image_base, m, k, a, f) ==
  IF ~Truthy(m) THEN f
  ELSE LET n == Cardinality(MatchingTargets(s, m))
       IN CASE n = 0 -> f
            [] a = "addr_raise" /\ n > 0 -> f
            [] a = "label_raise" /\ n > 0 ->
                 [f EXCEPT !.labelCalls = f.labelCalls \cup {k}]
            [] a = "ok" /\ n > 0 ->
                 [f EXCEPT !.labelCalls = f.labelCalls \cup {k},
                           !.labels = f.labels \cup
                              {[addr |-> image_base + m.Address,
                                name |-> CleanName(m.Name)]},
                           !.created = f.created + n,
                           !.applied = f.applied + n]

\* The for over data["ScriptMethod"] from method k on.  A method that is no
\* dict raises in method.get, outside the inner try: the outer except
\* returns 0.
RECURSIVE ApplyFrom(_, _, _, _, _, _)
ApplyFrom(s, image_base, methods, answers, k, f) ==
  IF k > Len(methods) THEN [f EXCEPT !.ret = f.applied]
  ELSE IF methods[k].kind # "dict" THEN [f EXCEPT !.ret = 0, !.raised = TRUE]
  ELSE ApplyFrom(s, image_base, methods, answers, k + 1,
                 ApplyMethod(s, image_base, methods[k], k, answers[k], f))

\* One call of apply_il2cpp_symbols on the file json, under the host answers:
\* setup for the calls before the loop (getSymbolTable, getAddressFactory,
\* getImageBase), answers[k] for method k.
apply_il2cpp_symbols(s, image_base, json, setup, answers) ==
  LET f == [NoApply EXCEPT !.called = TRUE]
  IN CASE json.file = "missing" -> f
       [] json.file = "unreadable" -> [f EXCEPT !.raised = TRUE]
       [] json.file = "ok" ->
            IF setup = "raise" THEN [f EXCEPT !.raised = TRUE]
            ELSE IF ~json.hasKey THEN f
            ELSE ApplyFrom(s, image_base, json.methods, answers, 1, f)

----------------------------------------------------------------------------
(* decompile_function_at_address *)

\* What the host can answer during one call of decompile_function_at_address:
\*   pre             getAddressFactory and getImageBase, before the try
\*   getFunctionAt   a function, None, or an exception (of getAddress too)
\*   createFunction  a function, None, or an exception
\*   decompile       decompileFunction and the reading of its results:
\*                   "C" completed, with a decompiled function and its C text
\*                   "emptyC" completed, with a decompiled function whose
\*                            getC() is the empty string
\*                   "noresult" completed, getDecompiledFunction() is empty
\*                   "failed_msg", "failed_nomsg" not completed, with and
\*                            without an error message
\*                   "raise" an exception
\* A field the call does not get to is "-".
DecompAnswers ==
  {h \in [pre : {"ok", "raise"},
          getFunctionAt : {"func", None, "raise", "-"},
          createFunction : {"func", None, "raise", "-"},
          decompile : {"C", "emptyC", "noresult", "failed_msg", "failed_nomsg",
                       "raise", "-"}] :
     /\ (h.getFunctionAt = "-") = (h.pre = "raise")
     /\ (h.createFunction = "-") = (h.getFunctionAt # None)
     /\ (h.decompile = "-") =
          ~(h.getFunctionAt = "func" \/ h.createFunction = "func")}

\* No call of decompile_function_at_address has been made, or its frame is
\* gone.
NoCall ==
  [called |-> FALSE, rva |-> 0, raised |-> FALSE, getFunctionAt |-> "notcalled",
   createFunction |-> "notcalled", decompileFunction |-> "notcalled",
   func |-> None, code |-> None, error |-> None]

\* results.decompileCompleted() and what follows it
ReadResults(h, f) ==
  CASE h.decompile = "C" -> [f EXCEPT !.code = "C"]
    [] h.decompile = "emptyC" -> [f EXCEPT !.code = ""]
    [] h.decompile = "noresult" ->
         [f EXCEPT !.error = "Decompilation returned no result"]
    [] h.decompile = "failed_msg" -> [f EXCEPT !.error = "Decompilation failed: "]
    [] h.decompile = "failed_nomsg" ->
         [f EXCEPT !.error = "Decompilation failed (unknown error)"]

\* Decompile with no except around it: the exception leaves the function.
DecompileUncaught(h, f, func) ==
  LET g == [f EXCEPT !.decompileFunction = "called", !.func = func]
  IN IF h.decompile = "raise" THEN [g EXCEPT !.raised = TRUE]
     ELSE ReadResults(h, g)

\* decompiler.decompileFunction(func, 120, ConsoleTaskMonitor()) on the
\* function func, in the frame f
Decompile(h, f, func) ==
  LET g == [f EXCEPT !.decompileFunction = "called", !.func = func]
  IN IF h.decompile = "raise" THEN [g EXCEPT !.error = "Exception: "]
     ELSE ReadResults(h, g)

\* CreateIfMissing without the return on None: what createFunction gave goes
\* to the decompiler.
CreateUnchecked(h, f) ==
  LET g == [f EXCEPT !.createFunction = h.createFunction]
  IN IF h.createFunction = "raise" THEN [g EXCEPT !.error = "Exception: "]
     ELSE [g EXCEPT !.decompileFunction = "called", !.func = h.createFunction,
                    !.error = "Exception: "]

\* if func is None: createFunction, and the return when it gives None
CreateIfMissing(h, f) ==
  LET g == [f EXCEPT !.createFunction = h.createFunction]
  IN CASE h.createFunction = "raise" -> [g EXCEPT !.error = "Exception: "]
       [] h.createFunction = None ->
            [g EXCEPT !.error = "Could not create function at "]
       [] h.createFunction = "func" -> Decompile(h, g, h.createFunction)

\* One call of decompile_function_at_address for the target at rva, under the
\* host answers h: the calls it made and the pair (code, error) it returned;
\* raised when the exception of a call before the try leaves the function.
decompile_function_at_address(rva, h) ==
  LET f == [NoCall EXCEPT !.called = TRUE, !.rva = rva]
  IN IF h.pre = "raise" THEN [f EXCEPT !.raised = TRUE]
     ELSE LET g == [f EXCEPT !.getFunctionAt = h.getFunctionAt]
          IN CASE h.getFunctionAt = "raise" -> [g EXCEPT !.error = "Exception: "]
               [] h.getFunctionAt = None -> CreateIfMissing(h, g)
               [] h.getFunctionAt = "func" -> Decompile(h, g, h.getFunctionAt)

\* if code: a str that is neither None nor empty
CodeIsTrue(code) == code # None /\ code # ""

----------------------------------------------------------------------------
(* run *)

\* Once the host has departed this many times from what the scripts expect
\* of it (see HostEvents), the loop and the writing of the report meet no
\* further failure.
MaxHostEvents == 1

\* The image bases program.getImageBase().getOffset() answers with.
ImageBases == {4194304}

\* The targets script.json names in a whole run of a script: one by its name
\* as it stands in the table, at the table's RVA.
LiteralSample(s) == IF s = "magic" THEN 2584400 ELSE 9671120

\* The script.json files a whole run is checked with.
MainJson(s) ==
  {NoFile,
   JsonFile(<<Method(TRUE, LiteralSample(s), TRUE,
                     TARGET_FUNCTIONS_RVA(s)[LiteralSample(s)])>>)}

VARIABLES
  script,            \* which script runs: "magic" or "pathfinding"
  pc,                \* where run is
  program,           \* what getCurrentProgram() returned
  image_base,        \* run's image_base
  types_parsed,      \* run's types_parsed
  parseFrame,        \* the last call of parse_il2cpp_header
  dtmTypes,          \* the program's data type manager received types
  scriptJson,        \* the file at SCRIPT_JSON_PATH
  labels,            \* the labels created in the program's symbol table
  applyFrame,        \* the last call of apply_il2cpp_symbols
  decompiler,        \* "none", "open" or "disposed"
  disposeCalls,      \* the calls of decompiler.dispose()
  targets,           \* the keys of the sorted items the for statement walks
  done,              \* how many of them the loop has gone through
  results,           \* run's results, the lines of the report in blocks
  current_class,     \* decompile_magic.py: run's current_class
  success_count,     \* run's success_count
  fail_count,        \* run's fail_count
  functionsCreated,  \* the functions createFunction created in the program
  lastCall,          \* the last call of decompile_function_at_address
  output,            \* the file at OUTPUT_PATH: the blocks written to it
  writeAttempts,     \* the attempts to open and write it, in order
  stages             \* the stages run has entered, in order

vars ==
  <<script, pc, program, image_base, types_parsed, parseFrame, dtmTypes,
    scriptJson, labels, applyFrame, decompiler, disposeCalls, targets, done,
    results, current_class, success_count, fail_count, functionsCreated,
    lastCall, output, writeAttempts, stages>>

hostVars == <<dtmTypes, labels, decompiler, disposeCalls, functionsCreated>>
loopVars == <<targets, done, results, current_class, success_count, fail_count, lastCall>>
fileVars == <<output, writeAttempts>>

\* The state in which a script is started, with script.json one of
\* jsons[script].
Start(jsons) ==
  /\ script \in Scripts
  /\ scriptJson \in jsons[script]
  /\ pc = "start"
  /\ program = None
  /\ image_base = 0
  /\ types_parsed = FALSE
  /\ parseFrame = NoParse
  /\ dtmTypes = FALSE
  /\ labels = {}
  /\ applyFrame = NoApply
  /\ decompiler = "none"
  /\ disposeCalls = 0
  /\ targets = <<>>
  /\ done = 0
  /\ results = <<>>
  /\ current_class = EMPTY
  /\ success_count = 0
  /\ fail_count = 0
  /\ functionsCreated = 0
  /\ lastCall = NoCall
  /\ output = <<>>
  /\ writeAttempts = <<>>
  /\ stages = <<>>

Init == Start([s \in Scripts |-> MainJson(s)])

\* RunNext with the symbols applied before the header is parsed.
RunNextSymbolsFirst(at) ==
  CASE at = "start" -> "apply"
    [] at = "apply" -> "parse"
    [] at = "parse" -> "open"
    [] at = "open" -> "loop"
    [] at = "loop" -> "write"
    [] at = "write" -> "dispose"
    [] at = "dispose" -> "done"

\* The statements of run in the order in which it reaches them: the step
\* that follows the step at.
RunNext(at) ==
  CASE at = "start" -> "parse"
    [] at = "parse" -> "apply"
    [] at = "apply" -> "open"
    [] at = "open" -> "loop"
    [] at = "loop" -> "write"
    [] at = "write" -> "dispose"
    [] at = "dispose" -> "done"

\* GetCurrentProgram without the return when there is no program.
GetCurrentProgramUnchecked ==
  /\ pc = "start"
  /\ \E p \in {"loaded", None}, base \in ImageBases :
       program' = p /\ image_base' = base
  /\ pc' = RunNext("start")
  /\ UNCHANGED <<script, types_parsed, parseFrame, scriptJson, applyFrame, stages>>
  /\ UNCHANGED <<hostVars, loopVars, fileVars>>

\* program = getCurrentProgram(); the return when there is none; image_base
\* and the prints that read the program.  An exception of one of these host
\* calls leaves run.
GetCurrentProgram ==
  /\ pc = "start"
  /\ \E p \in {"loaded", None}, base \in ImageBases, host \in {"ok", "raise"} :
       /\ program' = p
       /\ IF p = None
          THEN pc' = "done" /\ UNCHANGED image_base
          ELSE IF host = "raise"
               THEN pc' = "aborted" /\ UNCHANGED image_base
               ELSE pc' = RunNext("start") /\ image_base' = base
  /\ UNCHANGED <<script, types_parsed, parseFrame, scriptJson, applyFrame, stages>>
  /\ UNCHANGED <<hostVars, loopVars, fileVars>>

\* ParseHeader with run returning when the header could not be parsed.
ParseHeaderFatal ==
  /\ pc = "parse"
  /\ \E h \in ParseAnswers :
       LET f == parse_il2cpp_header(h)
       IN /\ parseFrame' = f
          /\ types_parsed' = f.ret
          /\ dtmTypes' = (dtmTypes \/ f.typesAdded)
          /\ pc' = IF f.ret THEN RunNext("parse") ELSE "done"
  /\ stages' = Append(stages, "parse_il2cpp_header")
  /\ UNCHANGED <<script, program, image_base, scriptJson, applyFrame>>
  /\ UNCHANGED <<labels, decompiler, disposeCalls, functionsCreated>>
  /\ UNCHANGED <<loopVars, fileVars>>

\* STEP 1: types_parsed = parse_il2cpp_header(program)
ParseHeader ==
  /\ pc = "parse"
  /\ \E h \in ParseAnswers :
       LET f == parse_il2cpp_header(h)
       IN /\ parseFrame' = f
          /\ types_parsed' = f.ret
          /\ dtmTypes' = (dtmTypes \/ f.typesAdded)
  /\ stages' = Append(stages, "parse_il2cpp_header")
  /\ pc' = RunNext("parse")
  /\ UNCHANGED <<script, program, image_base, scriptJson, applyFrame>>
  /\ UNCHANGED <<labels, decompiler, disposeCalls, functionsCreated>>
  /\ UNCHANGED <<loopVars, fileVars>>

\* STEP 2: apply_il2cpp_symbols(program); its result is dropped
ApplySymbols ==
  /\ pc = "apply"
  /\ \E setup \in {"ok", "raise"},
        answers \in [1..Len(scriptJson.methods) -> LabelAnswers] :
       LET f == apply_il2cpp_symbols(script, image_base, scriptJson, setup, answers)
       IN /\ applyFrame' = f
          /\ labels' = labels \cup f.labels
  /\ parseFrame' = NoParse
  /\ stages' = Append(stages, "apply_il2cpp_symbols")
  /\ pc' = RunNext("apply")
  /\ UNCHANGED <<script, program, image_base, types_parsed, scriptJson>>
  /\ UNCHANGED <<dtmTypes, decompiler, disposeCalls, functionsCreated>>
  /\ UNCHANGED <<loopVars, fileVars>>

\* str(types_parsed)
PyStr(b) == IF b THEN "True" ELSE "False"

\* The blocks of lines run appends to results.
HeaderBlock(types) ==
  [kind |-> "header", rva |-> 0, text |-> EMPTY, body |-> PyStr(types), error |-> None]
BannerBlock(class_name) ==
  [kind |-> "banner", rva |-> 0, text |-> class_name, body |-> "", error |-> None]
CodeBlock(rva, code) ==
  [kind |-> "entry", rva |-> rva, text |-> EMPTY, body |-> code, error |-> None]
\* The comment of a failed target carries str(error): "None" for no error,
\* the text of the message otherwise (the texts are not told apart here).
ErrorStr(error) == IF error = None THEN "None" ELSE "message"
FailedBlock(rva, error) ==
  [kind |-> "entry", rva |-> rva, text |-> EMPTY, body |-> "DECOMPILATION FAILED",
   error |-> ErrorStr(error)]

\* STEP 3 up to the for statement: the decompiler is opened, results gets the
\* header comment, the counters and current_class are set, and sorted()
\* makes the list the loop walks.  An exception of DecompInterface,
\* openProgram or getName leaves run.
OpenDecompiler ==
  /\ pc = "open"
  /\ applyFrame' = NoApply
  /\ stages' = Append(stages, "openProgram")
  /\ \E host \in {"ok", "raise"}, order \in DictOrders :
       IF host = "raise"
       THEN /\ pc' = "aborted"
            /\ UNCHANGED <<decompiler, loopVars>>
       ELSE /\ pc' = RunNext("open")
            /\ decompiler' = "open"
            /\ results' = <<HeaderBlock(types_parsed)>>
            /\ success_count' = 0
            /\ fail_count' = 0
            /\ current_class' = EMPTY
            /\ targets' = SortedKeys[script, order]
            /\ UNCHANGED <<done, lastCall>>
  /\ UNCHANGED <<script, program, image_base, types_parsed, parseFrame, scriptJson>>
  /\ UNCHANGED <<dtmTypes, labels, disposeCalls, functionsCreated>>
  /\ UNCHANGED fileVars

\* decompile_magic.py, at the head of the loop body: the banner that goes to
\* results when the class of the name is not current_class (nothing
\* otherwise), and current_class afterwards.  decompile_pathfinding.py has
\* neither.
BannerFor(s, current, name) ==
  IF s = "magic" /\ ClassName(name) # current
  THEN <<BannerBlock(ClassName(name))>>
  ELSE <<>>

\* ClassAfter with current_class never assigned.
ClassAfterStale(s, current, name) == current

ClassAfter(s, current, name) ==
  IF s = "magic" /\ ClassName(name) # current THEN ClassName(name) ELSE current

\* The block of one target: the code, or the comment with the error.
EntryBlock(rva, f) ==
  IF CodeIsTrue(f.code) THEN CodeBlock(rva, f.code) ELSE FailedBlock(rva, f.error)

\* The host answers as the scripts expect on this target: a function is
\* there and the decompiler gives its C text.
Nominal(h) == h.pre = "ok" /\ h.getFunctionAt = "func" /\ h.decompile = "C"

\* How often the host has departed from what the scripts expect of it in this
\* run: the header not parsed, script.json not read, a label not created, a
\* function that was not there, a target not decompiled.
HostEvents ==
  (IF types_parsed THEN 0 ELSE 1)
  + (IF scriptJson.file = "ok" /\ labels # {} THEN 0 ELSE 1)
  + fail_count + functionsCreated

\* One pass through the body of the for statement, for the next item of the
\* sorted list, the call of decompile_function_at_address included.  The
\* exception of a host call made before the try of that function leaves run,
\* after the banner has gone to results.
LoopIteration ==
  /\ pc = "loop"
  /\ done < Len(targets)
  /\ LET rva == targets[done + 1]
         name == TARGET_FUNCTIONS_RVA(script)[rva]
         banner == BannerFor(script, current_class, name)
     IN /\ current_class' = ClassAfter(script, current_class, name)
        /\ \E h \in DecompAnswers :
             /\ Nominal(h) \/ HostEvents < MaxHostEvents
             /\ LET f == decompile_function_at_address(rva, h)
                IN /\ lastCall' = f
                   /\ functionsCreated' =
                        IF f.createFunction = "func"
                        THEN functionsCreated + 1 ELSE functionsCreated
                   /\ IF f.raised
                      THEN /\ pc' = "aborted"
                           /\ results' = results \o banner
                           /\ UNCHANGED <<done, success_count, fail_count>>
                      ELSE /\ results' = results \o banner \o <<EntryBlock(rva, f)>>
                           /\ success_count' =
                                IF CodeIsTrue(f.code)
                                THEN success_count + 1 ELSE success_count
                           /\ fail_count' =
                                IF CodeIsTrue(f.code) THEN fail_count ELSE fail_count + 1
                           /\ done' = done + 1
                           /\ pc' = IF done + 1 = Len(targets)
                                    THEN RunNext("loop") ELSE "loop"
  /\ UNCHANGED <<script, program, image_base, types_parsed, parseFrame, scriptJson,
                 applyFrame, stages, targets>>
  /\ UNCHANGED <<dtmTypes, labels, decompiler, disposeCalls>>
  /\ UNCHANGED fileVars

\* One attempt to write the report: how the file is opened, what is written
\* and whether the host let it through.
WriteAttempt(mode, content, answer) ==
  [mode |-> mode, content |-> content, ok |-> (answer = "ok")]

\* WriteOutput with no try around the fallback: its exception leaves run.
WriteOutputUncaught ==
  /\ pc = "write"
  /\ \E utf8 \in {"ok", "raise"}, plain \in {"ok", "raise"} :
       /\ utf8 = "ok" \/ HostEvents < MaxHostEvents
       /\ writeAttempts' =
            IF utf8 = "ok"
            THEN <<WriteAttempt("utf-8", results, utf8)>>
            ELSE <<WriteAttempt("utf-8", results, utf8),
                   WriteAttempt("plain", results, plain)>>
       /\ output' = IF utf8 = "ok" \/ plain = "ok" THEN results ELSE output
       /\ pc' = IF utf8 = "raise" /\ plain = "raise" THEN "aborted" ELSE RunNext("write")
  /\ lastCall' = NoCall
  /\ stages' = Append(stages, "write")
  /\ UNCHANGED <<script, program, image_base, types_parsed, parseFrame, scriptJson,
                 applyFrame>>
  /\ UNCHANGED hostVars
  /\ UNCHANGED <<targets, done, results, current_class, success_count, fail_count>>

\* Write output: codecs.open(OUTPUT_PATH, 'w', 'utf-8') and f.write, and in
\* the except branch open(OUTPUT_PATH, 'w') and f.write.
WriteOutput ==
  /\ pc = "write"
  /\ \E utf8 \in {"ok", "raise"}, plain \in {"ok", "raise"} :
       /\ utf8 = "ok" \/ HostEvents < MaxHostEvents
       /\ writeAttempts' =
            IF utf8 = "ok"
            THEN <<WriteAttempt("utf-8", results, utf8)>>
            ELSE <<WriteAttempt("utf-8", results, utf8),
                   WriteAttempt("plain", results, plain)>>
       /\ output' = IF utf8 = "ok" \/ plain = "ok" THEN results ELSE output
  /\ lastCall' = NoCall
  /\ stages' = Append(stages, "write")
  /\ pc' = RunNext("write")
  /\ UNCHANGED <<script, program, image_base, types_parsed, parseFrame, scriptJson,
                 applyFrame>>
  /\ UNCHANGED hostVars
  /\ UNCHANGED <<targets, done, results, current_class, success_count, fail_count>>

\* decompiler.dispose(), the last statement of run
Dispose ==
  /\ pc = "dispose"
  /\ decompiler' = "disposed"
  /\ disposeCalls' = disposeCalls + 1
  /\ stages' = Append(stages, "dispose")
  /\ pc' = RunNext("dispose")
  /\ UNCHANGED <<script, program, image_base, types_parsed, parseFrame, scriptJson,
                 applyFrame>>
  /\ UNCHANGED <<dtmTypes, labels, functionsCreated>>
  /\ UNCHANGED <<loopVars, fileVars>>

Next ==
  \/ GetCurrentProgram
  \/ ParseHeader
  \/ ApplySymbols
  \/ OpenDecompiler
  \/ LoopIteration
  \/ WriteOutput
  \/ Dispose

Spec == Init /\ [][Next]_vars

----------------------------------------------------------------------------
(* apply_il2cpp_symbols on its own, over the contents of script.json *)

\* script.json holds at most this many methods.
MaxMethods == 2

\* A second target, which script.json names with "." for "$$".
DottedSample(s) == IF s = "magic" THEN 6701904 ELSE 3212480

\* A name that matches no target: "L." before the name of a target.
NoTargetName(s) == <<76, 46>> \o TARGET_FUNCTIONS_RVA(s)[LiteralSample(s)]

\* The methods the contents of script.json are made of: a target by its name
\* at its RVA; a target by its dotted name at another address; a name that
\* matches no target; a target with the address 0, with no address, with no
\* name and with the empty name; and an element that is no dict.
Methods(s) ==
  LET literal == TARGET_FUNCTIONS_RVA(s)[LiteralSample(s)]
      dotted == Replace(TARGET_FUNCTIONS_RVA(s)[DottedSample(s)], DOLLARS, DOT)
  IN {Method(TRUE, LiteralSample(s), TRUE, literal),
      Method(TRUE, DottedSample(s) + 16, TRUE, dotted),
      Method(TRUE, LiteralSample(s), TRUE, NoTargetName(s)),
      Method(TRUE, 0, TRUE, literal),
      Method(FALSE, 0, TRUE, dotted),
      Method(TRUE, LiteralSample(s), FALSE, EMPTY),
      Method(TRUE, LiteralSample(s), TRUE, EMPTY),
      NotADict}

\* Methods for each script, worked out once.
MethodsOf == [s \in Scripts |-> Methods(s)]

AllJson(s) ==
  {NoFile, BadFile, NoKeyFile} \cup
  {JsonFile(methods) : methods \in UNION {[1..n -> MethodsOf[s]] : n \in 0..MaxMethods}}

\* run at the call of apply_il2cpp_symbols, the header parsed, with
\* script.json any of AllJson.
InitSymbols ==
  /\ script \in Scripts
  /\ scriptJson \in AllJson(script)
  /\ pc = "apply"
  /\ program = "loaded"
  /\ image_base \in ImageBases
  /\ parseFrame = parse_il2cpp_header([exists |-> TRUE, setup |-> "ok", cparse |-> "value",
                                       count |-> "ok", alt |-> "ok"])
  /\ types_parsed = TRUE
  /\ dtmTypes = TRUE
  /\ labels = {}
  /\ applyFrame = NoApply
  /\ decompiler = "none"
  /\ disposeCalls = 0
  /\ targets = <<>>
  /\ done = 0
  /\ results = <<>>
  /\ current_class = EMPTY
  /\ success_count = 0
  /\ fail_count = 0
  /\ functionsCreated = 0
  /\ lastCall = NoCall
  /\ output = <<>>
  /\ writeAttempts = <<>>
  /\ stages = <<"parse_il2cpp_header">>

NextSymbols == ApplySymbols

SpecSymbols == InitSymbols /\ [][NextSymbols]_vars

----------------------------------------------------------------------------
(* What the claims read off a state *)

\* The keys of the running script's table.
Keys == DOMAIN TARGET_FUNCTIONS_RVA(script)

\* The blocks of the targets in results, in order.
IsEntry(b) == b.kind = "entry"
IsBanner(b) == b.kind = "banner"
Entries == SelectSeq(results, IsEntry)

\* The stages of a run that goes through, in the order of the pipeline.
StageOrder ==
  <<"parse_il2cpp_header", "apply_il2cpp_symbols", "openProgram", "write", "dispose">>

IsPrefix(a, b) == Len(a) <= Len(b) /\ a = SubSeq(b, 1, Len(a))

----------------------------------------------------------------------------
(* C1 *)

\* C1: the stages of a run come in one fixed order and none is entered
\* twice: the stages entered so far are a prefix of parse_il2cpp_header,
\* apply_il2cpp_symbols, openProgram, write, dispose; a call of
\* decompile_function_at_address is made only with the decompiler open, that
\* is after apply_il2cpp_symbols returned; and the output file is opened only
\* after the loop has gone through every entry of TARGET_FUNCTIONS_RVA, with
\* no target decompiled twice.
C1_StageOrder ==
  /\ IsPrefix(stages, StageOrder)
  /\ (lastCall.called \/ done > 0) =>
       /\ decompiler # "none"
       /\ Len(stages) >= 3
  /\ Len(stages) >= 4 =>
       /\ done = Cardinality(Keys)
       /\ {targets[k] : k \in 1..done} = Keys
  /\ Len(stages) < 4 => writeAttempts = <<>>

\* A run has gone through all the stages.
C1_Witness == pc = "done" /\ stages = StageOrder /\ writeAttempts # <<>>

----------------------------------------------------------------------------
(* C2 *)

\* The class prefix of a name: the text before the first "$$".
ClassPrefix(name) == SplitFirst(name, DOLLARS)

\* The class prefix of the name of each key, for each script.
ClassOfKey ==
  [s \in Scripts |->
     [rva \in DOMAIN TARGET_FUNCTIONS_RVA(s) |-> ClassPrefix(TARGET_FUNCTIONS_RVA(s)[rva])]]

\* The entries of one class are consecutive: an entry that has a later entry
\* of its class is followed by an entry of its class.
Grouped(s, entries) ==
  \A i \in 1..Len(entries) : \A k \in (i + 1)..Len(entries) :
    ClassOfKey[s][entries[i].rva] = ClassOfKey[s][entries[k].rva] =>
      ClassOfKey[s][entries[i + 1].rva] = ClassOfKey[s][entries[i].rva]

\* C2: in the report of either script the entries of one class are
\* consecutive: no entry of another class stands between two entries whose
\* names have the same class prefix.
C2_GroupedByClass == Grouped(script, Entries)

\* The loop of decompile_pathfinding.py has ended, with entries of more than
\* one class and more than one entry of a class in the report.
C2_Witness ==
  /\ pc = "write"
  /\ script = "pathfinding"
  /\ Len(Entries) = Cardinality(Keys)
  /\ \E i, k \in 1..Len(Entries) :
       /\ i + 1 < k
       /\ ClassOfKey[script][Entries[i].rva] # ClassOfKey[script][Entries[i + 1].rva]
       /\ ClassOfKey[script][Entries[i + 1].rva] = ClassOfKey[script][Entries[k].rva]

----------------------------------------------------------------------------
(* C3 *)

\* C3: a failure of the host on one target, met inside the try of
\* decompile_function_at_address, does not end the loop: once the call has
\* got to getFunctionAt it returns and the block of its target is the last
\* entry of the report.  The counters add up to the number of targets gone
\* through, which is the number of entries; every entry holds the code or
\* the DECOMPILATION FAILED comment; and when the loop has ended there is
\* exactly one entry for every key of TARGET_FUNCTIONS_RVA.
C3_BestEffortLoop ==
  /\ success_count + fail_count = done
  /\ Len(Entries) = done
  /\ \A k \in 1..Len(Entries) :
       Entries[k].body = "C" \/ Entries[k].body = "DECOMPILATION FAILED"
  /\ (lastCall.called /\ lastCall.getFunctionAt # "notcalled") =>
       /\ ~lastCall.raised
       /\ pc \in {"loop", "write"}
       /\ done > 0
       /\ Entries[done].rva = lastCall.rva
  /\ pc = "write" =>
       /\ done = Cardinality(Keys)
       /\ {Entries[k].rva : k \in 1..Len(Entries)} = Keys

\* The loop has ended after a target on which the host failed inside the try.
C3_Witness ==
  /\ pc = "write"
  /\ fail_count > 0
  /\ success_count > 0
  /\ \E k \in 1..Len(Entries) :
       Entries[k].body = "DECOMPILATION FAILED" /\ k < Len(Entries)

----------------------------------------------------------------------------
(* C4 *)

\* C4: what parse_il2cpp_header returns does not decide how run goes on.
\* When the call has returned, run is at the call of apply_il2cpp_symbols
\* with types_parsed the value returned; the header of the report carries
\* str(types_parsed); and a run with types_parsed False that reaches its
\* last statement has called apply_il2cpp_symbols, has an entry for every
\* key of TARGET_FUNCTIONS_RVA and has tried to write the report, each
\* attempt with the header "False".  (A run that an exception of the host
\* leaves gets to none of this, whatever parse_il2cpp_header returned.)
C4_ParseFailureNotFatal ==
  /\ parseFrame.called => (pc = "apply" /\ types_parsed = parseFrame.ret)
  /\ results # <<>> =>
       /\ results[1].kind = "header"
       /\ results[1].body = (IF types_parsed THEN "True" ELSE "False")
  /\ (pc \in {"dispose", "done"} /\ program = "loaded" /\ ~types_parsed) =>
       /\ Len(stages) >= 4
       /\ stages[2] = "apply_il2cpp_symbols"
       /\ {Entries[k].rva : k \in 1..Len(Entries)} = Keys
       /\ writeAttempts # <<>>
       /\ \A k \in 1..Len(writeAttempts) :
            /\ writeAttempts[k].content = results
            /\ writeAttempts[k].content[1].body = "False"

\* A run in which parse_il2cpp_header returned False has written the report.
C4_Witness ==
  /\ pc = "done"
  /\ program = "loaded"
  /\ ~types_parsed
  /\ Len(output) > Cardinality(Keys)
  /\ output[1].body = "False"

----------------------------------------------------------------------------
(* C5 *)

\* C5: when getCurrentProgram() returns None, run returns with nothing done:
\* no stage entered, no header parsed, no data type added, no label created,
\* no decompiler opened or disposed, no function created, nothing appended
\* to results and no output file opened or written.
C5_NoProgramNoEffect ==
  (pc = "done" /\ program = None) =>
    /\ stages = <<>>
    /\ ~parseFrame.called
    /\ ~dtmTypes
    /\ ~applyFrame.called
    /\ labels = {}
    /\ decompiler = "none"
    /\ disposeCalls = 0
    /\ ~lastCall.called
    /\ functionsCreated = 0
    /\ results = <<>>
    /\ writeAttempts = <<>>
    /\ output = <<>>

\* run has returned because there is no program.
C5_Witness == pc = "done" /\ program = None

----------------------------------------------------------------------------
(* C6 *)

\* The positions of the banners in a sequence of blocks.
BannerPositions(blocks) == {p \in 1..Len(blocks) : IsBanner(blocks[p])}

\* class_name for the name of each key, for each script.
ClassNameOfKey ==
  [s \in Scripts |->
     [rva \in DOMAIN TARGET_FUNCTIONS_RVA(s) |-> ClassName(TARGET_FUNCTIONS_RVA(s)[rva])]]

\* The class names of the running script's table.
ClassNames == {ClassNameOfKey[script][rva] : rva \in Keys}

\* The class name of the target of an entry.
ClassOfEntry(b) == ClassNameOfKey[script][b.rva]

\* C6: when the loop of decompile_magic.py has ended, the report has one
\* banner for each class of TARGET_FUNCTIONS_RVA and no other: as many
\* banners as classes, each class with a banner, each banner directly
\* followed by an entry of its class which is the first entry of that class,
\* and no banner between two entries of one class.
C6_OneBannerPerClass ==
  (script = "magic" /\ pc = "write") =>
    LET at == BannerPositions(results)
    IN /\ Cardinality(at) = Cardinality(ClassNames)
       /\ {results[p].text : p \in at} = ClassNames
       /\ \A p \in at :
            /\ p < Len(results)
            /\ IsEntry(results[p + 1])
            /\ ClassOfEntry(results[p + 1]) = results[p].text
            /\ \A q \in 1..(p - 1) :
                 IsEntry(results[q]) => ClassOfEntry(results[q]) # results[p].text
            /\ IsEntry(results[p - 1]) =>
                 ClassOfEntry(results[p - 1]) # ClassOfEntry(results[p + 1])

\* The loop of decompile_magic.py has ended with banners in the report, one
\* of them behind the entries of another class.
C6_Witness ==
  /\ script = "magic"
  /\ pc = "write"
  /\ \E p \in BannerPositions(results) : p > 2 /\ IsEntry(results[p - 1])

----------------------------------------------------------------------------
(* C7 *)

\* The key a comes before the key b in the order the script reports in:
\* decompile_magic.py by name, decompile_pathfinding.py by RVA.
Before ==
  [s \in Scripts |->
     [a \in DOMAIN TARGET_FUNCTIONS_RVA(s), b \in DOMAIN TARGET_FUNCTIONS_RVA(s) |->
        IF s = "magic"
        THEN StrLess(TARGET_FUNCTIONS_RVA(s)[a], TARGET_FUNCTIONS_RVA(s)[b])
        ELSE a < b]]

\* C7: whatever order items() hands the items out in, the loop walks the
\* keys of TARGET_FUNCTIONS_RVA in strictly ascending order, of the name in
\* decompile_magic.py and of the RVA in decompile_pathfinding.py; the entries
\* of the report stand in that order, and the call of
\* decompile_function_at_address for a target is made at that target's turn.
C7_AscendingOrder ==
  /\ pc \in {"loop", "write", "dispose"} =>
       /\ {targets[k] : k \in 1..Len(targets)} = Keys
       /\ \A k \in 1..(Len(targets) - 1) : Before[script][targets[k], targets[k + 1]]
  /\ \A k \in 1..Len(Entries) : Entries[k].rva = targets[k]
  /\ lastCall.called =>
       lastCall.rva = targets[IF lastCall.raised THEN done + 1 ELSE done]

\* The loop of decompile_magic.py has ended; the order of names is not the
\* order of RVAs.
C7_Witness ==
  /\ script = "magic"
  /\ pc = "write"
  /\ Len(Entries) = Cardinality(Keys)
  /\ \E k \in 1..(Len(targets) - 1) : targets[k + 1] < targets[k]

----------------------------------------------------------------------------
(* C8 *)

\* C8: the alternative parsing method is attempted at most once in a call of
\* parse_il2cpp_header, and only when CParser.parse raised; when CParser.parse
\* returned, None or a value, the alternative is not attempted and the call
\* returns True.
C8_AlternativeOnlyAfterParserRaised ==
  /\ parseFrame.altCalls <= 1
  /\ parseFrame.altCalls > 0 => parseFrame.cparse = "raise"
  /\ parseFrame.cparse \in {"value", None} =>
       (parseFrame.altCalls = 0 /\ parseFrame.ret)

\* CParser.parse returned a value, counting the data types raised, and the
\* alternative was attempted.
C8_Witness ==
  /\ parseFrame.called
  /\ parseFrame.cparse = "value"
  /\ parseFrame.count = "raise"
  /\ parseFrame.altCalls = 1

----------------------------------------------------------------------------
(* C9 *)

\* C9: createLabel is called only for a method of script.json that is a dict
\* with a name that is there and not empty, an address that is there and
\* not 0, and a name that is the name of a target as it stands or with every
\* "." replaced by "$$"; and every label in the symbol table is at the
\* address of such a method.
C9_LabelsOnlyForTargets ==
  /\ \A k \in applyFrame.labelCalls :
       LET m == scriptJson.methods[k]
       IN /\ m.kind = "dict"
          /\ m.hasName /\ m.Name # EMPTY
          /\ m.hasAddress /\ m.Address # 0
          /\ \E rva \in Keys :
               \/ m.Name = TARGET_FUNCTIONS_RVA(script)[rva]
               \/ Replace(m.Name, DOT, DOLLARS) = TARGET_FUNCTIONS_RVA(script)[rva]
  /\ \A l \in labels :
       \E k \in applyFrame.labelCalls :
         l.addr = image_base + scriptJson.methods[k].Address

\* createLabel was called for a method that stands behind one for which it
\* was not.
C9_Witness ==
  /\ applyFrame.called
  /\ labels # {}
  /\ \E k \in applyFrame.labelCalls :
       k > 1 /\ (k - 1) \notin applyFrame.labelCalls

----------------------------------------------------------------------------
(* C10 *)

\* C10: in a call of decompile_function_at_address, createFunction is called
\* only when getFunctionAt returned None, and the decompiler only with a
\* function that is not None; when createFunction returns None the call
\* returns (None, "Could not create function at ...") and the decompiler is
\* not called.
C10_CreateOnlyWhenMissing ==
  /\ lastCall.createFunction # "notcalled" => lastCall.getFunctionAt = None
  /\ lastCall.decompileFunction = "called" => lastCall.func = "func"
  /\ lastCall.createFunction = None =>
       /\ lastCall.decompileFunction = "notcalled"
       /\ lastCall.code = None
       /\ lastCall.error = "Could not create function at "

\* createFunction has returned None for a target.
C10_Witness ==
  /\ lastCall.called
  /\ lastCall.getFunctionAt = None
  /\ lastCall.createFunction = None

----------------------------------------------------------------------------
(* C11 *)

\* C11: the report is written with at most two attempts.  The first is the
\* codecs.open attempt; the plain open attempt is made exactly when the first
\* raised, and is the second; every attempt writes run's results; and
\* whatever the attempts end in, run goes on to decompiler.dispose(): once
\* an attempt was made run is at dispose or behind it, and when run has
\* ended the decompiler was disposed once.
C11_AtMostTwoWriteAttempts ==
  /\ Len(writeAttempts) <= 2
  /\ writeAttempts # <<>> =>
       /\ writeAttempts[1].mode = "utf-8"
       /\ (Len(writeAttempts) = 2) <=> ~writeAttempts[1].ok
       /\ Len(writeAttempts) = 2 => writeAttempts[2].mode = "plain"
       /\ \A k \in 1..Len(writeAttempts) : writeAttempts[k].content = results
       /\ pc \in {"dispose", "done"}
       /\ pc = "done" => (disposeCalls = 1 /\ decompiler = "disposed")
  /\ (output # <<>>) =>
       (\E k \in 1..Len(writeAttempts) : writeAttempts[k].ok /\ output = results)

\* Both attempts raised and run has ended, the decompiler disposed.
C11_Witness ==
  /\ pc = "done"
  /\ Len(writeAttempts) = 2
  /\ ~writeAttempts[1].ok
  /\ ~writeAttempts[2].ok
  /\ disposeCalls = 1

----------------------------------------------------------------------------
(* C12 *)

\* C12: what a call of apply_il2cpp_symbols returns is the number of calls of
\* createLabel that went through during the call, whatever script.json holds
\* and wherever the host failed; a call that returns 0 has created no label.
C12_ReturnsLabelsCreated ==
  applyFrame.called =>
    /\ applyFrame.ret = applyFrame.created
    /\ applyFrame.ret = 0 => (applyFrame.labels = {} /\ labels = {})

\* A call created a label, met an element of ScriptMethod that is no dict and
\* returned 0 from the outer except.
C12_Witness ==
  /\ applyFrame.called
  /\ applyFrame.raised
  /\ applyFrame.created > 0
  /\ labels # {}
  /\ applyFrame.ret = 0

----------------------------------------------------------------------------
(* C13 *)

\* C13: every label apply_il2cpp_symbols creates carries the name of a target
\* and is at the address at which decompile_function_at_address looks for
\* that target, image base + the target's key in TARGET_FUNCTIONS_RVA; no
\* label is at an address that is not image base + a key of the table.
C13_LabelsAtTableAddresses ==
  \A l \in labels :
    \E rva \in Keys :
      /\ l.name = CleanName(TARGET_FUNCTIONS_RVA(script)[rva])
      /\ l.addr = image_base + rva

\* A label was created at an address that is image base + no key of the
\* table.
C13_Witness ==
  /\ applyFrame.called
  /\ \E l \in labels : \A rva \in Keys : l.addr # image_base + rva

----------------------------------------------------------------------------
(* C14 *)

\* C14: a run that has opened the decompiler calls decompiler.dispose()
\* exactly once before it ends, on every path: dispose is never called
\* twice, and a run that has ended, by its last statement or by an exception
\* of a host call in the loop, has the decompiler disposed once.
C14_DisposedOnEveryPath ==
  /\ disposeCalls <= 1
  /\ (pc \in {"done", "aborted"} /\ decompiler # "none") =>
       (disposeCalls = 1 /\ decompiler = "disposed")

\* A host call made before the try of decompile_function_at_address raised:
\* run has ended with the decompiler open.
C14_Witness ==
  /\ pc = "aborted"
  /\ decompiler = "open"
  /\ lastCall.called
  /\ lastCall.raised
  /\ disposeCalls = 0

----------------------------------------------------------------------------
(* C15 *)

\* C15: a call of decompile_function_at_address that returns gives a pair
\* with exactly one part set, code that is not empty with the error None, or
\* the code None with an error that is not None; so every entry of the
\* report with the DECOMPILATION FAILED comment carries an error message, and
\* a target for which the call returned the text of a decompiled function
\* has the code in its entry and is counted in success_count.
C15_ExactlyOneOfCodeAndError ==
  /\ (lastCall.called /\ ~lastCall.raised) =>
       \/ (CodeIsTrue(lastCall.code) /\ lastCall.error = None)
       \/ (lastCall.code = None /\ lastCall.error # None)
  /\ \A k \in 1..Len(Entries) :
       Entries[k].body = "DECOMPILATION FAILED" => Entries[k].error # "None"
  /\ (lastCall.called /\ ~lastCall.raised /\ lastCall.code # None) =>
       /\ Entries[done].body = "C"
       /\ success_count > 0

\* The decompiler completed and getC() of the decompiled function gave the
\* empty text: the call returned ("", None) and run counted a failure.
C15_Witness ==
  /\ lastCall.called
  /\ lastCall.decompileFunction = "called"
  /\ lastCall.code = ""
  /\ lastCall.error = None
  /\ fail_count > 0
  /\ Entries[done].body = "DECOMPILATION FAILED"
  /\ Entries[done].error = "None"

=============================================================================
